---- MODULE Spec2Model ----
(***************************************************************************)
(* Model of the multipart ingestion route of showsk-rs:                    *)
(* src/routes/post_content/post.rs (submit_post, build_post, insert_post). *)
(*                                                                         *)
(* A request is one asynchronous task.  Every await point and every        *)
(* filesystem call of the handler is one atomic step; requests interleave   *)
(* at those steps and share only the filesystem, the UUID source and the   *)
(* database.  The multipart stream is lazy: the next part (its name and    *)
(* filename) is chosen when try_next is awaited, the next chunk when       *)
(* field.next is awaited.                                                  *)
(*                                                                         *)
(* Strings are sequences of code points, byte chunks are sequences of      *)
(* bytes, paths are sequences of path components.  A panic (an unwrap of   *)
(* None or Err) ends the request with the outcome "Panic".                 *)
(***************************************************************************)
EXTENDS Integers, Sequences, FiniteSets, TLC

\* ---------------------------------------------------------------- bounds
\* Requests running concurrently.
NumRequests == 2
\* Parts the stream of one request yields at most (single-request runs).
MaxParts == 2
\* Chunks the stream of one request yields at most (single-request runs).
MaxChunks == 3
\* Chunks the stream of one request yields at most (concurrent runs).
ConcChunks == 2
\* Parts the stream of one request yields at most (several-image runs).
MaxUploadParts == 3

Reqs == 1..NumRequests

\* ---------------------------------------------------------------- values
\* Option<T>: None is the empty sequence, Some(x) the sequence holding x.
None == <<>>
Some(x) == <<x>>
IsSome(o) == o # <<>>
Unwrap(o) == o[1]

\* The empty String, and the separator of the join at line 138.
EmptyString == <<>>
Sep == <<32>>

\* data.upload_path, and the process's working directory
u_path == "uploads"
cwd == <<"srv", "app">>

\* Byte chunks the transport may deliver: " ", "a", the lead byte of a
\* two-byte code point alone, its continuation byte alone, and both.
Chunks == {<<32>>, <<97>>, <<195>>, <<169>>, <<195, 169>>}

\* Byte chunks of an uploaded file: one byte, and two bytes.
ImageChunks == {<<97>>, <<195, 169>>}

\* Filenames a part may declare: absent, "", " ", "/a".
Filenames == {None, Some(<<>>), Some(<<32>>), Some(<<47, 97>>)}

\* ---------------------------------------------------------------- pure functions

\* A UTF-8 continuation byte.
IsCont(b) == b \in 128..191

\* String::from_utf8: the code points of a byte sequence, or an error.
RECURSIVE from_utf8(_)
from_utf8(b) ==
  IF b = <<>> THEN [ok |-> TRUE, s |-> <<>>]
  ELSE
    LET h == Head(b)
        n == Len(b)
        width == IF h < 128 THEN 1
                 ELSE IF h \in 194..223 /\ n >= 2 /\ IsCont(b[2]) THEN 2
                 ELSE IF /\ h \in 224..239 /\ n >= 3 /\ IsCont(b[3])
                         /\ b[2] \in (IF h = 224 THEN 160..191
                                      ELSE IF h = 237 THEN 128..159 ELSE 128..191)
                      THEN 3
                 ELSE IF /\ h \in 240..244 /\ n >= 4 /\ IsCont(b[3]) /\ IsCont(b[4])
                         /\ b[2] \in (IF h = 240 THEN 144..191
                                      ELSE IF h = 244 THEN 128..143 ELSE 128..191)
                      THEN 4
                 ELSE 0
        cp == CASE width = 1 -> h
                [] width = 2 -> (h - 192) * 64 + (b[2] - 128)
                [] width = 3 -> (h - 224) * 4096 + (b[2] - 128) * 64 + (b[3] - 128)
                [] width = 4 -> (h - 240) * 262144 + (b[2] - 128) * 4096
                                 + (b[3] - 128) * 64 + (b[4] - 128)
                [] OTHER -> 0
    IN IF width = 0 THEN [ok |-> FALSE, s |-> <<>>]
       ELSE LET rest == from_utf8(SubSeq(b, width + 1, n))
            IN IF rest.ok THEN [ok |-> TRUE, s |-> <<cp>> \o rest.s]
               ELSE [ok |-> FALSE, s |-> <<>>]

\* char::is_whitespace (the White_Space code points below U+3000).
IsWhitespace(c) == c \in (9..13) \cup {32, 133, 160, 5760, 8232, 8233, 8239, 8287}
                          \cup (8192..8202)

\* str::trim: the string without its leading and trailing whitespace.
RECURSIVE TrimStart(_)
TrimStart(s) == IF s # <<>> /\ IsWhitespace(Head(s)) THEN TrimStart(Tail(s)) ELSE s
RECURSIVE TrimEnd(_)
TrimEnd(s) == IF s # <<>> /\ IsWhitespace(s[Len(s)])
              THEN TrimEnd(SubSeq(s, 1, Len(s) - 1)) ELSE s
trim(s) == TrimEnd(TrimStart(s))

\* [String]::join(sep), mutated: the separator is left out.
RECURSIVE JoinNoSeparator(_, _)
JoinNoSeparator(v, sep) ==
  IF v = <<>> THEN <<>> ELSE Head(v) \o JoinNoSeparator(Tail(v), sep)

\* [String]::join(sep): the strings in order, sep between neighbours.
RECURSIVE join(_, _)
join(v, sep) ==
  IF v = <<>> THEN <<>>
  ELSE IF Len(v) = 1 THEN v[1]
  ELSE Head(v) \o sep \o join(Tail(v), sep)

\* sanitize_filename::sanitize, default options on a Unix build: illegal
\* characters and control characters are removed, then a name made of
\* dots only is replaced by the empty name.
IsIllegalChar(c) == c \in {47, 63, 60, 62, 92, 58, 42, 124, 34}
IsControlChar(c) == c \in (0..31) \cup (128..159)
RECURSIVE StripChars(_)
StripChars(s) ==
  IF s = <<>> THEN <<>>
  ELSE IF IsIllegalChar(Head(s)) \/ IsControlChar(Head(s)) THEN StripChars(Tail(s))
  ELSE <<Head(s)>> \o StripChars(Tail(s))
sanitize(s) ==
  LET t == StripChars(s)
  IN IF t # <<>> /\ \A i \in 1..Len(t) : t[i] = 46 THEN <<>> ELSE t

\* format!("{}-{}", uuid, sanitized), mutated: the UUID prefix is left out.
StoredFilenameNoUuid(uuid, filename) == <<0, sanitize(filename)>>

\* format!("{}-{}", ..), mutated: every stored filename has the same UUID.
StoredFilenameFixedUuid(uuid, filename) == <<1, sanitize(filename)>>

\* format!("{}-{}", Uuid::new_v4(), sanitize(filename)): the stored filename.
StoredFilename(uuid, filename) == <<uuid, sanitize(filename)>>

\* The absolute path, mutated: the file is put beside the upload directory.
UploadStrNoRoot(filename) == cwd \o <<filename>>

\* The absolute path: format!("{}/{}", uppath, filename), uppath = cwd.join(u_path).
UploadStr(filename) == cwd \o <<u_path, filename>>

\* The relative path: format!("../{}/{}", u_path, filename).
RelPath(filename) == <<"..", u_path, filename>>

\* The condition of the image branch, given that the name is "image":
\* !get_filename().unwrap().trim().is_empty()   (Panic on an absent filename).
ImageBranch(filename) ==
  IF ~IsSome(filename) THEN "Panic"
  ELSE IF trim(Unwrap(filename)) = EmptyString THEN "skip" ELSE "store"

\* Write::write_all, mutated: the chunk replaces what the file holds.
WriteAllOverwrite(content, data) == data

\* Write::write_all, mutated: the chunk is put before what the file holds.
WriteAllPrepend(content, data) == data \o content

\* Write::write_all on the open handle: the chunk is appended.
write_all(content, data) == content \o data

\* NewPost::new(body, filepath): the body must not be empty once trimmed.
NewPostNew(body, path) ==
  IF trim(body) = EmptyString THEN None
  ELSE Some([body |-> body, image |-> [path |-> path]])

\* submit_post on the identity lookup, mutated: None goes on like Some.
AfterGetUserIdNoGuard(res) ==
  CASE res = "Some" -> [pc |-> "resolve", outcome |-> "none"]
    [] res = "None" -> [pc |-> "resolve", outcome |-> "none"]
    [] OTHER -> [pc |-> "done", outcome |-> "PermissionDenied"]

\* submit_post on the identity lookup: Err is PermissionDenied, None the
\* redirect to /login, Some(uid) goes on to build_post.
AfterGetUserId(res) ==
  CASE res = "Some" -> [pc |-> "resolve", outcome |-> "none"]
    [] res = "None" -> [pc |-> "done", outcome |-> "SeeOtherLogin"]
    [] OTHER -> [pc |-> "done", outcome |-> "PermissionDenied"]

\* create_dir_all after a failed mkdir, mutated: the error is returned as is.
MkdirErrorIsOkStrict(is_dir) == FALSE

\* create_dir_all after a failed mkdir, mutated: the error is dropped.
MkdirErrorIgnored(is_dir) == TRUE

\* create_dir_all after a failed mkdir: Ok when the path is a directory by now.
MkdirErrorIsOk(is_dir) == is_dir

\* The error of a failed create_dir_all: line 92 or line 94.
CreateDirError(pcv) ==
  IF pcv = "recheck1" THEN "FileUploadPathError" ELSE "FileUploadError"

\* NewPostError::status_code, mutated: the path error is a bad request.
StatusCodePathIs400(kind) ==
  CASE kind = "QueryError" -> 500
    [] kind = "FileUploadError" -> 500
    [] kind = "ParseError" -> 400
    [] kind = "FileUploadPathError" -> 400
    [] kind = "PermissionDenied" -> 403

\* NewPostError::status_code (lines 41-49).
status_code(kind) ==
  CASE kind = "QueryError" -> 500
    [] kind = "FileUploadError" -> 500
    [] kind = "ParseError" -> 400
    [] kind = "FileUploadPathError" -> 500
    [] kind = "PermissionDenied" -> 403

\* The status of the response a request ends with: SeeOther (line 66),
\* Found (line 78), error_response (line 38); a panic sends no response.
ResponseStatus(how) ==
  CASE how = "SeeOtherLogin" -> 303
    [] how = "Found" -> 302
    [] how = "Panic" -> 0
    [] OTHER -> status_code(how)

\* The dispatch of lines 101-112, mutated: an unknown field name is refused.
DispatchStrict(name, filename) ==
  IF name = "post-editor" THEN "text"
  ELSE IF name = "image" THEN ImageBranch(filename)
  ELSE "Panic"

\* The dispatch of lines 101-112 on the field name and the filename.
Dispatch(name, filename) ==
  IF name = "post-editor" THEN "text"
  ELSE IF name = "image" THEN ImageBranch(filename)
  ELSE "skip"

\* Line 123, mutated: the path of the first image part is kept.
KeepFirstFilepath(old, filename) ==
  IF old = EmptyString THEN RelPath(filename) ELSE old

\* Line 123: filepath is overwritten by every stored image part.
NextFilepath(old, filename) == RelPath(filename)

\* Lines 105-106, mutated: String::from_utf8_lossy, which never fails.
DecodeChunkLossy(bytes) ==
  IF from_utf8(bytes).ok THEN from_utf8(bytes) ELSE [ok |-> TRUE, s |-> <<65533>>]

\* Lines 105-106: each chunk is decoded on its own.
DecodeChunk(bytes) == from_utf8(bytes)

\* Lines 74-80, mutated: the result of insert_post is dropped.
AfterInsertIgnored(ok) == "Found"

\* Lines 74-80: Ok is the redirect to /, Err is QueryError.
AfterInsert(ok) == IF ok THEN "Found" ELSE "QueryError"

\* ---------------------------------------------------------------- state
VARIABLES
  pc,          \* per request: the await point or call it stands before
  outcome,     \* per request: "none", a response, an error kind or "Panic"
  status,      \* per request: the HTTP status of its response (0: none)
  userid,      \* per request: what get_user_id returned ("unknown" before)
  parts,       \* per request: the parts the stream has yielded, with the
               \*   chunks read from each and the file opened for it
  text_body,   \* per request: the Vec<String> of line 95
  filepath,    \* per request: the String of line 96
  upload_str,  \* per request: the absolute path of line 121
  f,           \* per request: the open file handle of line 125
  data,        \* per request: the chunk read at line 130, not yet written
  new_post,    \* per request: what build_post returned Ok
  inserts,     \* per request: calls of insert_post
  fault,       \* per request: the failures of the environment it met, and
               \*   "eexist": its mkdir of line 91 found the directory made
               \*   by someone else since line 90
  dirExists,   \* the upload root is a directory
  dirCreator,  \* the request whose mkdir created it (0: none)
  files,       \* the files under the upload root, by absolute path
  nextUuid,    \* Uuid::new_v4: the next value never returned before
  db           \* the rows of table post

vars == <<pc, outcome, status, userid, parts, text_body, filepath, upload_str, f, data,
          new_post, inserts, fault, dirExists, dirCreator, files, nextUuid, db>>

\* The state after construction; the upload root may or may not exist yet.
Init ==
  /\ pc = [r \in Reqs |-> "auth"]
  /\ outcome = [r \in Reqs |-> "none"]
  /\ status = [r \in Reqs |-> 0]
  /\ userid = [r \in Reqs |-> "unknown"]
  /\ parts = [r \in Reqs |-> <<>>]
  /\ text_body = [r \in Reqs |-> <<>>]
  /\ filepath = [r \in Reqs |-> EmptyString]
  /\ upload_str = [r \in Reqs |-> None]
  /\ f = [r \in Reqs |-> None]
  /\ data = [r \in Reqs |-> None]
  /\ new_post = [r \in Reqs |-> None]
  /\ inserts = [r \in Reqs |-> 0]
  /\ fault = [r \in Reqs |-> {}]
  /\ dirExists \in BOOLEAN
  /\ dirCreator = 0
  /\ files = <<>>
  /\ nextUuid = 1
  /\ db = {}

\* ---------------------------------------------------------------- helpers

\* The request ends: a response, an error kind or a panic.
Finish(r, how) ==
  /\ pc' = [pc EXCEPT ![r] = "done"]
  /\ outcome' = [outcome EXCEPT ![r] = how]
  /\ status' = [status EXCEPT ![r] = ResponseStatus(how)]

\* The request moves on to its next step.
Goto(r, where) ==
  /\ pc' = [pc EXCEPT ![r] = where]
  /\ UNCHANGED <<outcome, status>>

\* The request met a failure of its environment.
Fault(r, tag) == fault' = [fault EXCEPT ![r] = @ \cup {tag}]

\* Chunks the stream of r has delivered so far.
RECURSIVE ChunkCount(_)
ChunkCount(ps) == IF ps = <<>> THEN 0 ELSE Len(Head(ps).chunks) + ChunkCount(Tail(ps))

\* The part being handled is the last one the stream yielded.
Cur(r) == Len(parts[r])

\* The chunk d was read from the current part.
GotChunk(r, d) == parts' = [parts EXCEPT ![r][Cur(r)].chunks = Append(@, d)]

\* The chunk loop of the current part ended with None.
PartDone(r) == parts' = [parts EXCEPT ![r][Cur(r)].complete = TRUE]

\* What try_next may yield: a field (while the stream has parts left), the
\* end of the stream, or an error.
StreamEvents(r, In) ==
  {[t |-> "field", name |-> k.name, filename |-> k.filename] :
      k \in {k \in In.kinds : Len(parts[r]) < In.maxParts}}
  \cup {[t |-> e, name |-> "", filename |-> None] : e \in In.stream}

\* What field.next may yield: a chunk (while the stream has chunks left),
\* the end of the part, or an error.
ChunkEvents(r, In, chunks) ==
  {[t |-> "chunk", data |-> d] :
      d \in {d \in chunks : ChunkCount(parts[r]) < In.maxChunks}}
  \cup {[t |-> e, data |-> <<>>] : e \in In.chunk}

\* ---------------------------------------------------------------- submit_post

\* Lines 60-69: the identity lookup.
GetUserId(r, In) ==
  /\ pc[r] = "auth"
  /\ \E res \in In.auth :
       /\ userid' = [userid EXCEPT ![r] = res]
       /\ pc' = [pc EXCEPT ![r] = AfterGetUserId(res).pc]
       /\ outcome' = [outcome EXCEPT ![r] = AfterGetUserId(res).outcome]
       /\ status' = [status EXCEPT ![r] =
            IF AfterGetUserId(res).pc = "done"
            THEN ResponseStatus(AfterGetUserId(res).outcome) ELSE 0]
  /\ UNCHANGED <<parts, text_body, filepath, upload_str, f, data, new_post, inserts,
                 fault, dirExists, dirCreator, files, nextUuid, db>>

\* ---------------------------------------------------------------- build_post

\* Line 89: current_dir().unwrap().join(u_path).
ResolveUploadPath(r, In) ==
  /\ pc[r] = "resolve"
  /\ \E ok \in In.cwdOk :
       IF ok THEN Goto(r, "isdir") /\ UNCHANGED fault
       ELSE Finish(r, "Panic") /\ Fault(r, "current_dir")
  /\ UNCHANGED <<userid, parts, text_body, filepath, upload_str, f, data, new_post,
                 inserts, dirExists, dirCreator, files, nextUuid, db>>

\* Line 90: is_dir decides whether line 91 runs.
CheckIsDir(r) ==
  /\ pc[r] = "isdir"
  /\ Goto(r, IF dirExists THEN "mkdir2" ELSE "mkdir1")
  /\ UNCHANGED <<userid, parts, text_body, filepath, upload_str, f, data, new_post,
                 inserts, fault, dirExists, dirCreator, files, nextUuid, db>>

\* Lines 91 and 94, create_dir_all: the mkdir call.  It fails when the
\* directory exists; otherwise the environment decides.
Mkdir(r, In) ==
  /\ pc[r] \in {"mkdir1", "mkdir2"}
  /\ \E ok \in (IF dirExists THEN {FALSE} ELSE In.mkdirOk) :
       IF ok
       THEN /\ dirExists' = TRUE
            /\ dirCreator' = r
            /\ Goto(r, IF pc[r] = "mkdir1" THEN "mkdir2" ELSE "next_part")
            /\ UNCHANGED fault
       ELSE /\ Goto(r, IF pc[r] = "mkdir1" THEN "recheck1" ELSE "recheck2")
            /\ IF ~dirExists THEN Fault(r, "mkdir")
               ELSE IF pc[r] = "mkdir1" THEN Fault(r, "eexist")
               ELSE UNCHANGED fault
            /\ UNCHANGED <<dirExists, dirCreator>>
  /\ UNCHANGED <<userid, parts, text_body, filepath, upload_str, f, data, new_post,
                 inserts, files, nextUuid, db>>

\* Lines 91-92 and 94, create_dir_all after a failed mkdir.
MkdirRecheck(r) ==
  /\ pc[r] \in {"recheck1", "recheck2"}
  /\ IF MkdirErrorIsOk(dirExists)
     THEN Goto(r, IF pc[r] = "recheck1" THEN "mkdir2" ELSE "next_part")
     ELSE Finish(r, CreateDirError(pc[r]))
  /\ UNCHANGED <<userid, parts, text_body, filepath, upload_str, f, data, new_post,
                 inserts, fault, dirExists, dirCreator, files, nextUuid, db>>

\* Lines 97-123: try_next, and the dispatch on the name and the filename.
TryNext(r, In) ==
  /\ pc[r] = "next_part"
  /\ \E ev \in StreamEvents(r, In) :
       LET part == [name |-> ev.name, filename |-> ev.filename, chunks |-> <<>>,
                    path |-> None, complete |-> FALSE]
           branch == Dispatch(ev.name, ev.filename)
           filename == StoredFilename(nextUuid, Unwrap(ev.filename))
       IN CASE ev.t = "end" ->
                 /\ Goto(r, "assemble")
                 /\ UNCHANGED <<parts, filepath, upload_str, nextUuid, fault>>
            [] ev.t = "err" ->
                 /\ Goto(r, "assemble")
                 /\ Fault(r, "try_next")
                 /\ UNCHANGED <<parts, filepath, upload_str, nextUuid>>
            [] ev.t = "field" /\ branch = "text" ->
                 /\ Goto(r, "text_chunk")
                 /\ parts' = [parts EXCEPT ![r] = Append(@, part)]
                 /\ UNCHANGED <<filepath, upload_str, nextUuid, fault>>
            [] ev.t = "field" /\ branch = "skip" ->
                 /\ Goto(r, "next_part")
                 /\ parts' = [parts EXCEPT ![r] = Append(@, part)]
                 /\ UNCHANGED <<filepath, upload_str, nextUuid, fault>>
            [] ev.t = "field" /\ branch = "Panic" ->
                 /\ Finish(r, "Panic")
                 /\ parts' = [parts EXCEPT ![r] = Append(@, part)]
                 /\ UNCHANGED <<filepath, upload_str, nextUuid, fault>>
            [] ev.t = "field" /\ branch = "store" ->
                 /\ Goto(r, "create")
                 /\ nextUuid' = nextUuid + 1
                 /\ upload_str' = [upload_str EXCEPT ![r] = Some(UploadStr(filename))]
                 /\ filepath' = [filepath EXCEPT ![r] = NextFilepath(@, filename)]
                 /\ parts' = [parts EXCEPT ![r] =
                      Append(@, [part EXCEPT !.path = Some(UploadStr(filename))])]
                 /\ UNCHANGED fault
  /\ UNCHANGED <<userid, text_body, f, data, new_post, inserts, dirExists,
                 dirCreator, files, db>>

\* Lines 103-108: one chunk of a post-editor part.
TextChunk(r, In) ==
  /\ pc[r] = "text_chunk"
  /\ \E ev \in ChunkEvents(r, In, In.chunks) :
       CASE ev.t = "end" ->
              /\ Goto(r, "next_part")
              /\ PartDone(r)
              /\ UNCHANGED <<text_body, fault>>
         [] ev.t = "err" ->
              /\ Finish(r, "Panic")
              /\ Fault(r, "text_chunk")
              /\ UNCHANGED <<parts, text_body>>
         [] ev.t = "chunk" /\ DecodeChunk(ev.data).ok ->
              /\ Goto(r, "text_chunk")
              /\ GotChunk(r, ev.data)
              /\ text_body' = [text_body EXCEPT ![r] = Append(@, DecodeChunk(ev.data).s)]
              /\ UNCHANGED fault
         [] ev.t = "chunk" /\ ~DecodeChunk(ev.data).ok ->
              /\ Finish(r, "ParseError")
              /\ GotChunk(r, ev.data)
              /\ UNCHANGED <<text_body, fault>>
  /\ UNCHANGED <<userid, filepath, upload_str, f, data, new_post, inserts, dirExists,
                 dirCreator, files, nextUuid, db>>

\* What File::create leaves at a path: an empty file, opened by this part.
Created(path, who) ==
  IF path \in DOMAIN files
  THEN [files[path] EXCEPT !.content = <<>>, !.opened = @ \cup {who}]
  ELSE [content |-> <<>>, opened |-> {who}, written |-> {}]

\* Lines 125-128: web::block(File::create).await.map_err(..)?.unwrap().
FileCreate(r, In) ==
  /\ pc[r] = "create"
  /\ \E ev \in In.create :
       CASE ev = "ok" ->
              /\ Goto(r, "img_chunk")
              /\ files' = (Unwrap(upload_str[r]) :>
                             Created(Unwrap(upload_str[r]), <<r, Cur(r)>>)) @@ files
              /\ f' = [f EXCEPT ![r] = upload_str[r]]
              /\ UNCHANGED fault
         [] ev = "io" ->
              /\ Finish(r, "Panic")
              /\ Fault(r, "create")
              /\ UNCHANGED <<files, f>>
         [] ev = "blocking" ->
              /\ Finish(r, "FileUploadError")
              /\ Fault(r, "blocking")
              /\ UNCHANGED <<files, f>>
  /\ UNCHANGED <<userid, parts, text_body, filepath, upload_str, data, new_post,
                 inserts, dirExists, dirCreator, nextUuid, db>>

\* Lines 129-130: the next chunk of an image part.
ImageChunk(r, In) ==
  /\ pc[r] = "img_chunk"
  /\ \E ev \in ChunkEvents(r, In, In.imageChunks) :
       CASE ev.t = "end" ->
              /\ Goto(r, "next_part")
              /\ PartDone(r)
              /\ f' = [f EXCEPT ![r] = None]
              /\ UNCHANGED <<data, fault>>
         [] ev.t = "err" ->
              /\ Finish(r, "Panic")
              /\ Fault(r, "image_chunk")
              /\ UNCHANGED <<parts, f, data>>
         [] ev.t = "chunk" ->
              /\ Goto(r, "write")
              /\ GotChunk(r, ev.data)
              /\ data' = [data EXCEPT ![r] = Some(ev.data)]
              /\ UNCHANGED <<f, fault>>
  /\ UNCHANGED <<userid, text_body, filepath, upload_str, new_post, inserts,
                 dirExists, dirCreator, files, nextUuid, db>>

\* Lines 131-134: web::block(f.write_all(&data)).await.map_err(..)?.unwrap().
\* A failed write_all may have written any proper prefix of the chunk.
WriteAll(r, In) ==
  /\ pc[r] = "write"
  /\ \E ev \in In.write :
       LET path == Unwrap(f[r])
           d == Unwrap(data[r])
       IN CASE ev = "ok" ->
                 /\ Goto(r, "img_chunk")
                 /\ files' = [files EXCEPT ![path].content = write_all(@, d),
                                           ![path].written = @ \cup {<<r, Cur(r)>>}]
                 /\ data' = [data EXCEPT ![r] = None]
                 /\ UNCHANGED fault
            [] ev = "io" ->
                 /\ Finish(r, "Panic")
                 /\ Fault(r, "write")
                 /\ \E k \in 0..(Len(d) - 1) :
                      files' = [files EXCEPT
                        ![path].content = write_all(@, SubSeq(d, 1, k)),
                        ![path].written = @ \cup {<<r, Cur(r)>>}]
                 /\ UNCHANGED data
            [] ev = "blocking" ->
                 /\ Finish(r, "FileUploadError")
                 /\ Fault(r, "blocking")
                 /\ UNCHANGED <<files, data>>
  /\ UNCHANGED <<userid, parts, text_body, filepath, upload_str, f, new_post,
                 inserts, dirExists, dirCreator, nextUuid, db>>

\* Lines 138-139: the join, and NewPost::new.
Assemble(r) ==
  /\ pc[r] = "assemble"
  /\ LET body == join(text_body[r], Sep)
         res == NewPostNew(body, filepath[r])
     IN IF IsSome(res)
        THEN Goto(r, "insert") /\ new_post' = [new_post EXCEPT ![r] = res]
        ELSE Finish(r, "ParseError") /\ UNCHANGED new_post
  /\ UNCHANGED <<userid, parts, text_body, filepath, upload_str, f, data, inserts,
                 fault, dirExists, dirCreator, files, nextUuid, db>>

\* ---------------------------------------------------------------- insert_post

\* Lines 74-80 and 145-164: the insert, then the redirect to /.
InsertPost(r, In) ==
  /\ pc[r] = "insert"
  /\ inserts' = [inserts EXCEPT ![r] = @ + 1]
  /\ \E ok \in In.dbOk :
       IF ok
       THEN /\ Finish(r, AfterInsert(ok))
            /\ db' = db \cup {[post_id |-> nextUuid,
                               body |-> Unwrap(new_post[r]).body,
                               image |-> Unwrap(new_post[r]).image.path,
                               user_id |-> r]}
            /\ nextUuid' = nextUuid + 1
            /\ UNCHANGED fault
       ELSE /\ Finish(r, AfterInsert(ok))
            /\ Fault(r, "insert")
            /\ UNCHANGED <<db, nextUuid>>
  /\ UNCHANGED <<userid, parts, text_body, filepath, upload_str, f, data, new_post,
                 dirExists, dirCreator, files>>

\* ---------------------------------------------------------------- specifications

\* One request, every kind of part and every failure of the environment.
SeqIn ==
  [auth |-> {"Some", "None", "Err"},
   cwdOk |-> BOOLEAN,
   mkdirOk |-> BOOLEAN,
   kinds |-> {[name |-> "post-editor", filename |-> None],
              [name |-> "other", filename |-> None]}
             \cup {[name |-> "image", filename |-> fn] : fn \in Filenames},
   stream |-> {"end", "err"},
   chunks |-> Chunks,
   imageChunks |-> ImageChunks,
   chunk |-> {"end", "err"},
   create |-> {"ok", "io", "blocking"},
   write |-> {"ok", "io", "blocking"},
   dbOk |-> BOOLEAN,
   maxParts |-> MaxParts,
   maxChunks |-> MaxChunks]

Next ==
  \E r \in {1} :
    \/ GetUserId(r, SeqIn)
    \/ ResolveUploadPath(r, SeqIn)
    \/ CheckIsDir(r)
    \/ Mkdir(r, SeqIn)
    \/ MkdirRecheck(r)
    \/ TryNext(r, SeqIn)
    \/ TextChunk(r, SeqIn)
    \/ FileCreate(r, SeqIn)
    \/ ImageChunk(r, SeqIn)
    \/ WriteAll(r, SeqIn)
    \/ Assemble(r)
    \/ InsertPost(r, SeqIn)

Spec == Init /\ [][Next]_vars

\* Concurrent authenticated requests, each uploading one image under the same
\* original filename, request r sending chunks of the byte r, against an
\* upload root that does not exist yet; the environment fails nowhere.
ConcIn(r) ==
  [auth |-> {"Some"},
   cwdOk |-> {TRUE},
   mkdirOk |-> {TRUE},
   kinds |-> {[name |-> "image", filename |-> Some(<<97>>)]},
   stream |-> {"end"},
   chunks |-> {},
   imageChunks |-> {<<r>>},
   chunk |-> {"end"},
   create |-> {"ok"},
   write |-> {"ok"},
   dbOk |-> {TRUE},
   maxParts |-> 1,
   maxChunks |-> ConcChunks]

NextConc ==
  \E r \in Reqs :
    \/ GetUserId(r, ConcIn(r))
    \/ ResolveUploadPath(r, ConcIn(r))
    \/ CheckIsDir(r)
    \/ Mkdir(r, ConcIn(r))
    \/ MkdirRecheck(r)
    \/ TryNext(r, ConcIn(r))
    \/ FileCreate(r, ConcIn(r))
    \/ ImageChunk(r, ConcIn(r))
    \/ WriteAll(r, ConcIn(r))
    \/ Assemble(r)

\* The concurrent runs start with no upload root.
InitConc == Init /\ ~dirExists

SpecConc == InitConc /\ [][NextConc]_vars

\* One request with several image parts: the environment refuses nothing but
\* the insert, and the parts are post-editor parts and image parts named "a"
\* or "/a".
UploadsIn ==
  [auth |-> {"Some"},
   cwdOk |-> {TRUE},
   mkdirOk |-> {TRUE},
   kinds |-> {[name |-> "post-editor", filename |-> None],
              [name |-> "image", filename |-> Some(<<97>>)],
              [name |-> "image", filename |-> Some(<<47, 97>>)]},
   stream |-> {"end"},
   chunks |-> {<<97>>},
   imageChunks |-> ImageChunks,
   chunk |-> {"end"},
   create |-> {"ok"},
   write |-> {"ok"},
   dbOk |-> BOOLEAN,
   maxParts |-> MaxUploadParts,
   maxChunks |-> MaxChunks]

NextUploads ==
  \E r \in {1} :
    \/ GetUserId(r, UploadsIn)
    \/ ResolveUploadPath(r, UploadsIn)
    \/ CheckIsDir(r)
    \/ Mkdir(r, UploadsIn)
    \/ MkdirRecheck(r)
    \/ TryNext(r, UploadsIn)
    \/ TextChunk(r, UploadsIn)
    \/ FileCreate(r, UploadsIn)
    \/ ImageChunk(r, UploadsIn)
    \/ WriteAll(r, UploadsIn)
    \/ Assemble(r)
    \/ InsertPost(r, UploadsIn)

SpecUploads == Init /\ [][NextUploads]_vars

\* ---------------------------------------------------------------- properties

\* The failures of the environment a request met.
Faults(r) == fault[r] \ {"eexist"}

\* The responses and the five error kinds.
Responses == {"SeeOtherLogin", "Found"}
ErrorKinds == {"QueryError", "FileUploadError", "FileUploadPathError", "ParseError",
               "PermissionDenied"}

\* The parts of request r, by index.
PartIds(r) == 1..Len(parts[r])

\* The bytes of a sequence of chunks, in order.
RECURSIVE Concat(_)
Concat(cs) == IF cs = <<>> THEN <<>> ELSE Concat(SubSeq(cs, 1, Len(cs) - 1)) \o cs[Len(cs)]

\* The strings c1 + " " + c2 + ... + " " + cn.
RECURSIVE SpaceSeparated(_)
SpaceSeparated(cs) ==
  IF cs = <<>> THEN <<>>
  ELSE IF Len(cs) = 1 THEN cs[1]
  ELSE SpaceSeparated(SubSeq(cs, 1, Len(cs) - 1)) \o <<32>> \o cs[Len(cs)]

\* The chunks of the post-editor parts of a request, in arrival order.
RECURSIVE TextChunksOf(_)
TextChunksOf(ps) ==
  IF ps = <<>> THEN <<>>
  ELSE (IF Head(ps).name = "post-editor" THEN Head(ps).chunks ELSE <<>>)
       \o TextChunksOf(Tail(ps))

AllDecode(cs) == \A i \in 1..Len(cs) : from_utf8(cs[i]).ok
DecodedChunks(cs) == [i \in 1..Len(cs) |-> from_utf8(cs[i]).s]

\* The text the post-editor chunks of request r stand for.
SubmittedText(r) == SpaceSeparated(DecodedChunks(TextChunksOf(parts[r])))

\* A string of whitespace only (or of nothing).
IsBlank(str) == \A i \in 1..Len(str) : IsWhitespace(str[i])

\* The filename of a part is absent, empty or all whitespace.
BlankFilename(p) == ~IsSome(p.filename) \/ IsBlank(Unwrap(p.filename))

\* Request r opened or wrote this file.
Touched(r, path) ==
  \E w \in files[path].opened \cup files[path].written : w[1] = r

\* Request r has left no trace on the filesystem or in the database.
NoSideEffects(r) ==
  /\ parts[r] = <<>>
  /\ fault[r] = {}
  /\ dirCreator # r
  /\ \A path \in DOMAIN files : ~Touched(r, path)
  /\ inserts[r] = 0
  /\ \A row \in db : row.user_id # r

\* build_post has returned to submit_post, or ended the request.
BuildReturned(r) == userid[r] = "Some" /\ pc[r] \in {"insert", "done"}

\* C1: a request whose identity lookup yields None ends at once with the
\* redirect to /login, one whose lookup fails ends at once with
\* PermissionDenied; neither has run any step of build_post, created a
\* directory, created or written a file, or attempted an insert.
C1_UnauthenticatedShortCircuits ==
  \A r \in Reqs :
    userid[r] \in {"None", "Err"} =>
      /\ pc[r] = "done"
      /\ outcome[r] = (IF userid[r] = "None" THEN "SeeOtherLogin"
                       ELSE "PermissionDenied")
      /\ NoSideEffects(r)

C1_Witness ==
  \E r \in Reqs :
    userid[r] = "None" /\ pc[r] = "done" /\ outcome[r] = "SeeOtherLogin"

\* C2: an image part whose filename is absent, empty or all whitespace is
\* ignored: no file is created for it, the request does not abort on it, and
\* with no other image part the NewPost has an empty image path.
C2_BlankFilenameIgnored ==
  \A r \in Reqs : \A i \in PartIds(r) :
    (parts[r][i].name = "image" /\ BlankFilename(parts[r][i])) =>
      /\ parts[r][i].path = None
      /\ ~(i = Len(parts[r]) /\ outcome[r] = "Panic")
      /\ ( /\ IsSome(new_post[r])
           /\ \A j \in PartIds(r) :
                parts[r][j].name = "image" => BlankFilename(parts[r][j]) )
         => Unwrap(new_post[r]).image.path = EmptyString

\* C3: once an image part with a non-blank filename has been read to its
\* end, exactly one file was created for it and the file holds the
\* concatenation of the part's chunks in arrival order.
C3_FileHoldsChunksInOrder ==
  \A r \in Reqs : \A i \in PartIds(r) :
    (IsSome(parts[r][i].path) /\ parts[r][i].complete) =>
      /\ Unwrap(parts[r][i].path) \in DOMAIN files
      /\ files[Unwrap(parts[r][i].path)].content = Concat(parts[r][i].chunks)
      /\ Cardinality({path \in DOMAIN files : <<r, i>> \in files[path].opened}) = 1

\* A part of no chunk and a part of three chunks, both read to the end.
C3_Witness ==
  \E r \in Reqs : \E i, j \in PartIds(r) :
    /\ IsSome(parts[r][i].path) /\ parts[r][i].complete
    /\ parts[r][i].chunks = <<>>
    /\ IsSome(parts[r][j].path) /\ parts[r][j].complete
    /\ Len(parts[r][j].chunks) >= 3
    /\ parts[r][j].chunks[1] # parts[r][j].chunks[2]

\* A part of exactly one chunk, read to the end.
C3_OneChunk ==
  \E r \in Reqs : \E i \in PartIds(r) :
    IsSome(parts[r][i].path) /\ parts[r][i].complete /\ Len(parts[r][i].chunks) = 1

\* C4: when build_post has returned for a request with no image part that met
\* no failure of its environment, whose post-editor chunks all decode and
\* whose text is not blank, it returned a NewPost whose body is the chunks
\* joined by single spaces in arrival order and whose image path is empty.
C4_BodyIsChunksJoined ==
  \A r \in Reqs :
    ( /\ BuildReturned(r)
      /\ Faults(r) \subseteq {"insert"}
      /\ \A i \in PartIds(r) : parts[r][i].name # "image"
      /\ AllDecode(TextChunksOf(parts[r]))
      /\ ~IsBlank(SubmittedText(r)) )
    => new_post[r] = Some([body |-> SubmittedText(r),
                           image |-> [path |-> EmptyString]])

\* Two or more chunks, one of them a two-byte code point.
C4_Witness ==
  \E r \in Reqs :
    /\ BuildReturned(r) /\ outcome[r] = "Found"
    /\ \A i \in PartIds(r) : parts[r][i].name # "image"
    /\ Len(TextChunksOf(parts[r])) >= 2
    /\ \E i \in 1..Len(TextChunksOf(parts[r])) : TextChunksOf(parts[r])[i] = <<195, 169>>
    /\ IsSome(new_post[r])

\* A single chunk.
C4_OneChunk ==
  \E r \in Reqs :
    /\ BuildReturned(r) /\ IsSome(new_post[r])
    /\ Len(TextChunksOf(parts[r])) = 1

\* The failures C5 lists: directory creation, fetching the next part,
\* reading a chunk, file creation, file write, the insert.
ListedFaults == {"mkdir", "try_next", "text_chunk", "image_chunk", "create", "write",
                 "blocking", "insert"}

\* C5: a request that met one of the listed failures ends in one of the five
\* error kinds: it is neither aborted unclassified nor answered as a success.
C5_EveryFailureClassified ==
  \A r \in Reqs :
    (pc[r] = "done" /\ Faults(r) # {} /\ Faults(r) \subseteq ListedFaults) =>
      outcome[r] \in ErrorKinds

\* C6: the file of an image part is open before a chunk of the part is
\* read, and a failed File::create, a failed read of a chunk of the part or
\* a failed write make the request return FileUploadError.
C6_UploadFailuresReported ==
  \A r \in Reqs :
    /\ \A i \in PartIds(r) :
         (IsSome(parts[r][i].path) /\ parts[r][i].chunks # <<>>) =>
           /\ Unwrap(parts[r][i].path) \in DOMAIN files
           /\ <<r, i>> \in files[Unwrap(parts[r][i].path)].opened
    /\ (pc[r] = "done" /\ Faults(r) \cap {"create", "image_chunk", "write"} # {})
         => outcome[r] = "FileUploadError"

\* C7: a request whose preparation step fails (the working directory cannot
\* be resolved, or the directory cannot be made) ends with
\* FileUploadPathError, having consumed no part.
C7_PathFailureReported ==
  \A r \in Reqs :
    (pc[r] = "done" /\ Faults(r) \cap {"current_dir", "mkdir"} # {}) =>
      /\ outcome[r] = "FileUploadPathError"
      /\ parts[r] = <<>>

\* C8: a request that met no failure of its environment and whose
\* post-editor text is empty or blank ends with ParseError, and no insert is
\* attempted for it.
C8_BlankTextIsParseError ==
  \A r \in Reqs :
    ( /\ userid[r] = "Some" /\ pc[r] = "done"
      /\ Faults(r) = {}
      /\ AllDecode(TextChunksOf(parts[r]))
      /\ IsBlank(SubmittedText(r)) )
    => (outcome[r] = "ParseError" /\ inserts[r] = 0)

\* The parts for which a stored filename was made.
StoredParts ==
  UNION {{<<r, i>> : i \in {i \in PartIds(r) : IsSome(parts[r][i].path)}} : r \in Reqs}

\* C9: the stored filenames of concurrent uploads of one original filename
\* are pairwise distinct, a file is opened and written by the one part it was
\* made for, and it holds a prefix of that part's chunks: all of them once
\* the part has been read to its end.
C9_ConcurrentUploadsDoNotCollide ==
  /\ \A v, w \in StoredParts :
       v # w => parts[v[1]][v[2]].path # parts[w[1]][w[2]].path
  /\ \A path \in DOMAIN files :
       /\ Cardinality(files[path].opened) = 1
       /\ files[path].written \subseteq files[path].opened
  /\ \A w \in StoredParts :
       LET p == parts[w[1]][w[2]]
       IN Unwrap(p.path) \in DOMAIN files =>
            LET c == files[Unwrap(p.path)].content
            IN /\ Len(c) <= Len(Concat(p.chunks))
               /\ c = SubSeq(Concat(p.chunks), 1, Len(c))
               /\ \A k \in 1..Len(c) : c[k] = w[1]
               /\ p.complete => c = Concat(p.chunks)

\* Every request has uploaded its image, of one chunk or more.
C9_Witness ==
  \A r \in Reqs :
    /\ Len(parts[r]) = 1
    /\ parts[r][1].complete
    /\ parts[r][1].filename = Some(<<97>>)
    /\ Len(parts[r][1].chunks) >= 1

\* The preparation step of request r has completed.
PrepDone(r) ==
  \/ pc[r] \in {"next_part", "text_chunk", "create", "img_chunk", "write", "assemble",
                "insert"}
  \/ pc[r] = "done" /\ parts[r] # <<>>
  \/ pc[r] = "done" /\ outcome[r] \in {"ParseError", "Found", "QueryError"}

\* The preparation step of request r has failed.
PrepFailed(r) ==
  /\ pc[r] = "done" /\ parts[r] = <<>>
  /\ outcome[r] \in {"FileUploadPathError", "FileUploadError"}

\* C10: a request whose mkdir the environment did not refuse never fails in
\* its preparation step, whichever request made the directory first; and once
\* a request has completed the step the directory exists.
C10_DirectoryBootstrapRace ==
  \A r \in Reqs :
    /\ PrepFailed(r) => "mkdir" \in fault[r]
    /\ PrepDone(r) => dirExists

\* Two requests both found no directory; one made it, and the mkdir of the
\* other then failed because it existed; both completed the step.
C10_Witness ==
  \E r1, r2 \in Reqs :
    /\ r1 # r2
    /\ dirCreator = r1
    /\ "eexist" \in fault[r2]
    /\ PrepDone(r1) /\ PrepDone(r2)

\* ---------------------------------------------------------------- C11

\* The part the stream yields in this step, if the step yields one.
Yields(r, i) == Len(parts[r]) = i - 1 /\ Len(parts'[r]) = i

\* C11: a part whose field name is neither post-editor nor image changes
\* nothing: the step that takes it from the stream leaves the request where
\* it was (about to fetch the next part) and leaves the collected text, the
\* recorded image path, the files, the outcome, the status and the database
\* as they were, so what follows is what would follow without the part.
C11_UnknownPartsChangeNothing ==
  [][\A r \in Reqs :
       ( /\ Yields(r, Len(parts'[r]))
         /\ parts'[r][Len(parts'[r])].name \notin {"post-editor", "image"} ) =>
       ( /\ pc'[r] = pc[r]
         /\ UNCHANGED <<outcome, status, text_body, filepath, upload_str, f, data,
                        new_post, inserts, fault, dirExists, dirCreator, files,
                        nextUuid, db>> )]_vars

\* An unknown part, then a post-editor part: the post is stored with the
\* text of the second part and no image.
C11_Witness ==
  \E r \in Reqs :
    /\ pc[r] = "done" /\ outcome[r] = "Found"
    /\ Len(parts[r]) = 2
    /\ parts[r][1].name \notin {"post-editor", "image"}
    /\ parts[r][2].name = "post-editor"
    /\ \E row \in db : /\ row.user_id = r
                       /\ row.body = SubmittedText(r)
                       /\ row.image = EmptyString

\* ---------------------------------------------------------------- C12

\* C12: the request ends with 302 Found exactly when build_post returned a
\* NewPost and the insert succeeded; the insert is attempted at most once,
\* and only with a NewPost in hand; a failed insert ends with QueryError.
C12_RedirectIffInserted ==
  \A r \in Reqs :
    /\ inserts[r] <= 1
    /\ inserts[r] = 1 => (IsSome(new_post[r]) /\ pc[r] = "done")
    /\ (pc[r] = "done" /\ outcome[r] = "Found") <=>
         (IsSome(new_post[r]) /\ inserts[r] = 1 /\ "insert" \notin fault[r])
    /\ (pc[r] = "done" /\ status[r] = 302) <=> (pc[r] = "done" /\ outcome[r] = "Found")
    /\ (pc[r] = "done" /\ outcome[r] = "Found") =>
         \E row \in db : /\ row.user_id = r
                         /\ row.body = Unwrap(new_post[r]).body
                         /\ row.image = Unwrap(new_post[r]).image.path
    /\ "insert" \in fault[r] =>
         (pc[r] = "done" /\ outcome[r] = "QueryError" /\ \A row \in db : row.user_id # r)
    /\ outcome[r] = "QueryError" => "insert" \in fault[r]

\* A NewPost was built and its insert failed: QueryError, one attempt.
C12_Witness ==
  \E r \in Reqs :
    /\ pc[r] = "done" /\ outcome[r] = "QueryError" /\ status[r] = 500
    /\ IsSome(new_post[r]) /\ inserts[r] = 1 /\ db = {}

\* A NewPost was built and inserted: 302 Found.
C12_Inserted ==
  \E r \in Reqs :
    /\ pc[r] = "done" /\ outcome[r] = "Found" /\ status[r] = 302
    /\ IsSome(new_post[r]) /\ inserts[r] = 1 /\ db # {}

\* ---------------------------------------------------------------- C13

\* C13: status_code is defined on each of the five kinds; ParseError is 400,
\* PermissionDenied 403, and QueryError, FileUploadError, FileUploadPathError
\* are 500; a request that ends with a kind answers with that status.
C13_StatusMapping ==
  /\ \A k \in ErrorKinds :
       /\ status_code(k) = (IF k = "ParseError" THEN 400
                            ELSE IF k = "PermissionDenied" THEN 403 ELSE 500)
       /\ status_code(k) \in 400..499 <=> k \in {"ParseError", "PermissionDenied"}
  /\ \A r \in Reqs :
       (pc[r] = "done" /\ outcome[r] \in ErrorKinds) =>
         status[r] = status_code(outcome[r])

\* The directory could not be created: FileUploadPathError, answered with 500.
C13_Witness ==
  \E r \in Reqs :
    /\ pc[r] = "done" /\ outcome[r] = "FileUploadPathError" /\ status[r] = 500
    /\ "mkdir" \in fault[r]

\* ---------------------------------------------------------------- C14

\* The failures inside build_post: of the directory creation, of the fetch
\* of the next part, of a chunk read, of File::create, of a chunk write.
CoreFaults == {"mkdir", "try_next", "text_chunk", "image_chunk", "create", "write",
               "blocking"}

\* Request r has met a failure inside build_post: one of CoreFaults, or a
\* post-editor chunk that does not decode.
CoreFailed(r) ==
  \/ Faults(r) \cap CoreFaults # {}
  \/ ~AllDecode(TextChunksOf(parts[r]))

\* C14: a request that met a failure inside build_post ends there: it
\* consumes no further part or chunk, no NewPost is assembled for it and no
\* insert is attempted.
C14_FailureTerminatesAtOnce ==
  \A r \in Reqs :
    CoreFailed(r) =>
      /\ pc[r] \notin {"next_part", "text_chunk", "create", "img_chunk", "write"}
      /\ ~IsSome(new_post[r])
      /\ inserts[r] = 0

\* ---------------------------------------------------------------- C15

\* a is a prefix of b.
IsPrefix(a, b) == Len(a) <= Len(b) /\ a = SubSeq(b, 1, Len(a))

\* All but the last element of a non-empty sequence.
Front(cs) == SubSeq(cs, 1, Len(cs) - 1)

\* C15: a part is fetched only when every part before it has been handled to
\* its end; a chunk is in flight to the disk only in the write step, and it
\* is the last chunk read from the current part, whose file then holds
\* exactly the chunks before it; at every state a file holds a prefix of the
\* concatenation of its part's chunks in arrival order.
C15_StrictlySequential ==
  \A r \in Reqs :
    /\ \A i \in PartIds(r) :
         (i < Len(parts[r]) /\ Dispatch(parts[r][i].name, parts[r][i].filename)
                                 \in {"text", "store"}) => parts[r][i].complete
    /\ pc[r] = "write" => IsSome(data[r])
    /\ IsSome(data[r]) =>
         /\ pc[r] \in {"write", "done"}
         /\ parts[r] # <<>>
         /\ LET p == parts[r][Len(parts[r])]
            IN /\ IsSome(p.path) /\ p.path = f[r] /\ ~p.complete
               /\ p.chunks # <<>>
               /\ Unwrap(data[r]) = p.chunks[Len(p.chunks)]
               /\ Unwrap(p.path) \in DOMAIN files
               /\ IsPrefix(Concat(Front(p.chunks)), files[Unwrap(p.path)].content)
               /\ pc[r] = "write" =>
                    files[Unwrap(p.path)].content = Concat(Front(p.chunks))
    /\ \A i \in PartIds(r) :
         LET p == parts[r][i]
         IN (IsSome(p.path) /\ Unwrap(p.path) \in DOMAIN files) =>
              /\ IsPrefix(files[Unwrap(p.path)].content, Concat(p.chunks))
              /\ (~IsSome(data[r]) \/ i < Len(parts[r])) =>
                   files[Unwrap(p.path)].content = Concat(p.chunks)

\* The second chunk of an image part is in flight and the file holds the first.
C15_Witness ==
  \E r \in Reqs :
    /\ pc[r] = "write" /\ parts[r] # <<>>
    /\ LET p == parts[r][Len(parts[r])]
       IN /\ Len(p.chunks) = 2 /\ p.chunks[1] # p.chunks[2]
          /\ files[Unwrap(p.path)].content = p.chunks[1]

\* ---------------------------------------------------------------- C16

\* The pcs of the part loop and of what follows it.
AfterPrep == {"next_part", "text_chunk", "create", "img_chunk", "write", "assemble",
              "insert"}

\* C16: the upload directory exists in every state in which a file exists
\* or holds bytes, and in every state from the one in which the request is
\* about to fetch its first part on.
C16_DirectoryBeforeFiles ==
  /\ DOMAIN files # {} => dirExists
  /\ \A r \in Reqs :
       /\ (pc[r] \in AfterPrep \/ parts[r] # <<>>) => dirExists
       /\ parts[r] # <<>> => pc[r] \notin {"auth", "resolve", "isdir", "mkdir1",
                                            "mkdir2", "recheck1", "recheck2"}
       /\ (IsSome(f[r]) \/ IsSome(upload_str[r])) => dirExists

\* The request made the directory itself, then wrote bytes of an image part.
C16_Witness ==
  \E r \in Reqs :
    /\ dirCreator = r /\ dirExists
    /\ \E path \in DOMAIN files : Touched(r, path) /\ files[path].content # <<>>

\* ---------------------------------------------------------------- C17

\* C17: the chunks of post-editor parts are decoded one by one.  A chunk that
\* is not valid UTF-8 on its own ends the request with ParseError: it is the
\* last chunk read of the last part fetched (every chunk before it decodes),
\* the text collected is the decoded chunks before it in their order, and no
\* NewPost is assembled.
C17_DecodedChunkByChunk ==
  \A r \in Reqs :
    LET T == TextChunksOf(parts[r])
    IN IF AllDecode(T) THEN text_body[r] = DecodedChunks(T)
       ELSE /\ AllDecode(Front(T))
            /\ LET p == parts[r][Len(parts[r])]
               IN /\ p.name = "post-editor" /\ ~p.complete
                  /\ p.chunks # <<>> /\ p.chunks[Len(p.chunks)] = T[Len(T)]
            /\ pc[r] = "done" /\ outcome[r] = "ParseError" /\ status[r] = 400
            /\ text_body[r] = DecodedChunks(Front(T))
            /\ ~IsSome(new_post[r]) /\ inserts[r] = 0

\* The chunk "a", then the lead byte of a two-byte code point alone: the
\* chunk is refused although it would decode together with the byte that
\* follows it in the stream.
C17_Witness ==
  \E r \in Reqs :
    LET T == TextChunksOf(parts[r])
    IN /\ Len(T) = 2 /\ from_utf8(T[1]).ok /\ ~from_utf8(T[2]).ok
       /\ \E d \in Chunks : ~from_utf8(d).ok /\ from_utf8(T[1] \o T[2] \o d).ok
       /\ pc[r] = "done" /\ outcome[r] = "ParseError"
       /\ text_body[r] = <<from_utf8(T[1]).s>>

\* ---------------------------------------------------------------- C18

\* C18: no step removes the directory, removes a file or shortens what a
\* file holds: a file that exists goes on existing, and what it held is a
\* prefix of what it holds after the step.
C18_NothingRolledBack ==
  [][/\ dirExists => dirExists'
     /\ \A path \in DOMAIN files :
          /\ path \in DOMAIN files'
          /\ IsPrefix(files[path].content, files'[path].content)]_vars

\* An image was written, then a post-editor chunk did not decode: the request
\* ended with ParseError and the file is there with its bytes.
C18_Witness ==
  \E r \in Reqs :
    /\ pc[r] = "done" /\ outcome[r] = "ParseError" /\ dirExists
    /\ \E i \in PartIds(r) :
         /\ IsSome(parts[r][i].path) /\ parts[r][i].chunks # <<>>
         /\ Unwrap(parts[r][i].path) \in DOMAIN files
         /\ files[Unwrap(parts[r][i].path)].content = Concat(parts[r][i].chunks)

\* An image was written, then the insert failed: the file is there.
C18_InsertFailed ==
  \E r \in Reqs :
    /\ pc[r] = "done" /\ outcome[r] = "QueryError"
    /\ \E path \in DOMAIN files : Touched(r, path) /\ files[path].content # <<>>

\* ---------------------------------------------------------------- C19

\* The image parts of request r that were stored (non-blank filename), in
\* stream order.
StoredIds(r) == {i \in PartIds(r) : IsSome(parts[r][i].path)}

\* The largest element of a non-empty set of numbers.
Max(S) == CHOOSE m \in S : \A n \in S : n <= m

\* The stored filename of a part: the last component of its absolute path.
StoredName(p) == Unwrap(p.path)[Len(Unwrap(p.path))]

\* C19: when build_post returns a NewPost for a request with two or more
\* stored image parts, each part has a file of its own holding its own
\* chunks, and the image path of the NewPost is the relative path of the
\* last of them.
C19_LastImageWins ==
  \A r \in Reqs :
    (IsSome(new_post[r]) /\ Cardinality(StoredIds(r)) >= 2) =>
      /\ \A i, j \in StoredIds(r) : i # j => parts[r][i].path # parts[r][j].path
      /\ Cardinality({parts[r][i].path : i \in StoredIds(r)})
           = Cardinality(StoredIds(r))
      /\ \A i \in StoredIds(r) :
           /\ Unwrap(parts[r][i].path) \in DOMAIN files
           /\ files[Unwrap(parts[r][i].path)].content = Concat(parts[r][i].chunks)
           /\ files[Unwrap(parts[r][i].path)].opened = {<<r, i>>}
      /\ Unwrap(new_post[r]).image.path
           = RelPath(StoredName(parts[r][Max(StoredIds(r))]))
      /\ \A i \in StoredIds(r) \ {Max(StoredIds(r))} :
           Unwrap(new_post[r]).image.path # RelPath(StoredName(parts[r][i]))

\* Two image parts with bytes and a post-editor part: the NewPost names the
\* file of the second image part and the file of the first is still there.
C19_Witness ==
  \E r \in Reqs :
    /\ IsSome(new_post[r]) /\ Cardinality(StoredIds(r)) = 2
    /\ \A i \in StoredIds(r) :
         /\ parts[r][i].chunks # <<>>
         /\ files[Unwrap(parts[r][i].path)].content = Concat(parts[r][i].chunks)
    /\ Unwrap(new_post[r]).image.path
         = RelPath(StoredName(parts[r][Max(StoredIds(r))]))

\* ---------------------------------------------------------------- C20

\* The image path rel, returned or persisted for request r, names a file
\* that this request made and wrote to its end.
RefersToStoredFile(r, rel) ==
  /\ Len(rel) = 3 /\ rel[1] = ".." /\ rel[2] = u_path
  /\ cwd \o <<u_path, rel[3]>> \in DOMAIN files
  /\ \E i \in StoredIds(r) :
       /\ StoredName(parts[r][i]) = rel[3]
       /\ parts[r][i].complete
       /\ files[cwd \o <<u_path, rel[3]>>].opened = {<<r, i>>}
       /\ files[cwd \o <<u_path, rel[3]>>].written \subseteq {<<r, i>>}
       /\ files[cwd \o <<u_path, rel[3]>>].content = Concat(parts[r][i].chunks)

\* C20: a non-empty image path in the NewPost build_post returns, and in a
\* row of the database, is ../{upload root}/{stored filename}, and the file
\* of that name under the absolute upload root exists, was made by the same
\* request and holds all the chunks of its image part.
C20_ImagePathRefersToFile ==
  /\ \A r \in Reqs :
       (IsSome(new_post[r]) /\ Unwrap(new_post[r]).image.path # EmptyString) =>
         RefersToStoredFile(r, Unwrap(new_post[r]).image.path)
  /\ \A row \in db :
       row.image # EmptyString => RefersToStoredFile(row.user_id, row.image)

\* A row with an image path was inserted and its file holds the image bytes.
C20_Witness ==
  \E row \in db :
    /\ row.image # EmptyString
    /\ files[cwd \o <<u_path, row.image[3]>>].content # <<>>
    /\ pc[row.user_id] = "done" /\ outcome[row.user_id] = "Found"

====
